---------------------------- MODULE Spec2Model ----------------------------
(***************************************************************************)
(* Model of admin_reorder.middleware.ModelAdminReorder: the middleware     *)
(* that replaces the admin's app list by the one configured in             *)
(* settings.ADMIN_REORDER_MODEL_LIST.                                      *)
(*                                                                         *)
(* Python values are modelled as follows.                                  *)
(*   - None is NoneVal; a value whose type the code tests is a record      *)
(*     tagged by its type: [str |-> s], [list |-> seq], [dict |-> d],      *)
(*     [int |-> n], [tuple |-> seq].                                       *)
(*   - a dict is a function from its keys; "k in d" is k \in DOMAIN d.     *)
(*     All model dicts of a catalog are built by the same framework code,  *)
(*     so their key order is uniform and is not modelled.                  *)
(*   - a string the code takes apart or joins (app labels, object names,   *)
(*     model names, model selectors) is a sequence of tokens:              *)
(*     "blog.Post" is <<"blog", ".", "Post">>.  Display names, url names   *)
(*     and paths are opaque strings.                                       *)
(*   - objects that are shared by reference (the app dicts and model dicts *)
(*     the admin view put in the response) live in `objects` and are       *)
(*     named by references: [listref |-> <<r, k>>] is the list under key k *)
(*     of response r, [appref |-> <<r, k, i>>] its i-th app dict and       *)
(*     [mref |-> <<r, k, i, j>>] the j-th model dict of that app.          *)
(***************************************************************************)
EXTENDS Integers, Sequences, FiniteSets, TLC

VARIABLES
    settings,       \* django.conf.settings: setting name -> value
    registry,       \* django.apps.apps: app label -> models in get_models() order
    request,        \* per handler call: request.path_info
    context_data,   \* per handler call: response.context_data
    objects,        \* the app lists the admin view created, per response and key
    self,           \* the fields of the one ModelAdminReorder instance
    pc,             \* per handler call: position in process_template_response
    outcome,        \* per handler call: "none", "returned" or the exception raised
    reordered,      \* per handler call: the value of get_reordered_apps_list()
    original,       \* per handler call: response.context_data as the view built it
    models_config,  \* argument of a direct process_models_config call
    result          \* what that call returned or raised

vars == <<settings, registry, request, context_data, objects, self, pc,
          outcome, reordered, original, models_config, result>>

-----------------------------------------------------------------------------
(* Bounds *)

\* longest ADMIN_REORDER_MODEL_LIST drawn
MaxConfigLen == 2

\* longest "models" sub-configuration drawn for a direct call of the selector
MaxModelsLen == 2

-----------------------------------------------------------------------------
(* Python values *)

NoneVal == [none |-> TRUE]

Unset == [unset |-> TRUE]

IsNone(v) == "none" \in DOMAIN v

IsStr(v) == "str" \in DOMAIN v

IsDict(v) == "dict" \in DOMAIN v

IsList(v) == "list" \in DOMAIN v

IsTuple(v) == "tuple" \in DOMAIN v

Str(s) == [str |-> s]

List(s) == [list |-> s]

Dict(d) == [dict |-> d]

\* d[k] = v on a dict
SetKey(d, k, v) == (k :> v) @@ d

\* the truth value Python gives a value
Truthy(v) ==
    IF IsNone(v) THEN FALSE
    ELSE IF IsList(v) THEN Len(v.list) > 0
    ELSE IF IsStr(v) THEN Len(v.str) > 0
    ELSE TRUE

\* all the orders in which the elements of a set can be enumerated
Orderings(S) ==
    {f \in [1..Cardinality(S) -> S] :
        \A i, j \in 1..Cardinality(S) : i # j => f[i] # f[j]}

\* the tokens of the strings of the model, in the order of Python's str
\* comparison ('*' < '.' < upper case < lower case)
Alphabet ==
    <<"*", ".", "Comment", "Draft", "Post", "Thing", "User", "auth", "blog", "ghost">>

Rank(tok) == CHOOSE i \in 1..Len(Alphabet) : Alphabet[i] = tok

\* a < b for two strings
RECURSIVE StrLess(_, _)
StrLess(a, b) ==
    IF Len(b) = 0 THEN FALSE
    ELSE IF Len(a) = 0 THEN TRUE
    ELSE IF Head(a) = Head(b) THEN StrLess(Tail(a), Tail(b))
    ELSE Rank(Head(a)) < Rank(Head(b))

\* sub in s, for a two-token sub
Contains2(s, t1, t2) ==
    \E i \in 1..(Len(s) - 1) : s[i] = t1 /\ s[i + 1] = t2

\* s.split(".*")[0]
SplitWildcardHead(s) ==
    IF Contains2(s, ".", "*")
    THEN LET i == CHOOSE i \in 1..(Len(s) - 1) :
                      /\ s[i] = "." /\ s[i + 1] = "*"
                      /\ \A j \in 1..(i - 1) : ~(s[j] = "." /\ s[j + 1] = "*")
         IN  SubSeq(s, 1, i - 1)
    ELSE s

-----------------------------------------------------------------------------
(* The objects of a response *)

\* the handler calls of the model; call r handles request[r] and the
\* response whose context is context_data[r]
Calls == {1, 2}

\* self.response_context_key when no app list is in the context: Python's
\* None (no key of a context of the model is this string)
NoneKey == "None"

Listref(r, k) == [listref |-> <<r, k>>]

Appref(r, k, i) == [appref |-> <<r, k, i>>]

Mref(r, k, i, j) == [mref |-> <<r, k, i, j>>]

IsAppref(v) == "appref" \in DOMAIN v

IsListref(v) == "listref" \in DOMAIN v

\* the list object a reference names
AppList(objs, l) == objs[l[1]][l[2]]

\* the app dict a reference names
App(objs, a) == objs[a[1]][a[2]][a[3]]

\* the model dict a reference names
Model(objs, m) == objs[m[1]][m[2]][m[3]].models[m[4]]

\* an item assignment on the model dict a reference names
SetModel(objs, m, d) ==
    [objs EXCEPT ![m[1]][m[2]][m[3]].models[m[4]] = d]

\* an element of an app list as the template sees it
DerefApp(objs, e) == IF IsAppref(e) THEN App(objs, e.appref) ELSE e

\* a context value as the template sees it
DerefValue(objs, v) ==
    IF IsListref(v) THEN List(AppList(objs, v.listref))
    ELSE IF IsList(v) THEN List([i \in DOMAIN v.list |-> DerefApp(objs, v.list[i])])
    ELSE v

\* response.context_data as the template sees it
View(ctx, objs) == [k \in DOMAIN ctx |-> DerefValue(objs, ctx[k])]

-----------------------------------------------------------------------------
(* ModelAdminReorder *)

settings_config == "ADMIN_REORDER_MODEL_LIST"

settings_valid_url_names == "ADMIN_REORDER_VALID_URL_NAMES"

settings_append_unrepresented_models == "ADMIN_APPEND_UNREPRESENTED_MODELS"

getattr(obj, name, default) == IF name \in DOMAIN obj THEN obj[name] ELSE default

\* django.urls.resolve on the project's URLconf: the match of a path, or
\* NoneVal for Resolver404
resolve(path_info) ==
    CASE path_info = "/admin/"           -> [app_name |-> "admin", url_name |-> "index"]
      [] path_info = "/admin/blog/"      -> [app_name |-> "admin", url_name |-> "app_list"]
      [] path_info = "/admin/blog/post/" -> [app_name |-> "admin", url_name |-> "blog_post_changelist"]
      [] path_info = "/shop/"            -> [app_name |-> "shop", url_name |-> "index"]
      [] path_info = "/shop/cart/"       -> [app_name |-> "shop", url_name |-> "cart"]
      [] OTHER                           -> NoneVal

\* x in a list or tuple
InList(x, l) ==
    LET s == IF IsList(l) THEN l.list ELSE l.tuple
    IN  \E i \in DOMAIN s : s[i] = x

init_valid_urls(slf) ==
    [slf EXCEPT !.valid_url_names =
        getattr(settings, settings_valid_url_names, List(<<"index", "app_list">>))]

validate_admin_urls(slf, path_info) ==
    LET url == resolve(path_info)
    IN  IF IsNone(url) THEN FALSE
        ELSE IF ~(url.app_name = "admin") /\ ~InList(url.url_name, slf.valid_url_names)
             THEN FALSE
             ELSE TRUE

init_response_context_key(slf, ctx) ==
    [slf EXCEPT !.response_context_key =
        IF "app_list" \in DOMAIN ctx THEN "app_list"
        ELSE IF "available_apps" \in DOMAIN ctx THEN "available_apps"
        ELSE NoneKey]

get_formatted_model_name(app_name, model_name) ==
    IF ~(\E i \in DOMAIN model_name : model_name[i] = ".")
    THEN app_name \o <<".">> \o model_name
    ELSE model_name

\* the references to the model dicts of apps i.. of a list, in order
RECURSIVE FlatModelRefs(_, _, _)
FlatModelRefs(objs, l, i) ==
    IF i > Len(AppList(objs, l)) THEN <<>>
    ELSE [j \in 1..Len(AppList(objs, l)[i].models) |-> Mref(l[1], l[2], i, j)]
         \o FlatModelRefs(objs, l, i + 1)

\* returns the list and the objects as the loop leaves them
get_project_models_list(slf, objs) ==
    LET l == slf.project_apps_list.listref
        named(app) ==
            [app EXCEPT !.models =
                [j \in DOMAIN @ |->
                    SetKey(@[j], "model_name",
                           get_formatted_model_name(app.app_label, @[j].object_name))]]
    IN  [objects |-> [objs EXCEPT ![l[1]][l[2]] = [i \in DOMAIN @ |-> named(@[i])]],
         ret     |-> FlatModelRefs(objs, l, 1)]

\* init_config building the catalog before it validates the settings
init_config_catalog_first(slf, objs, ctx, req) ==
    LET s1 == [slf EXCEPT
                 !.request = req,
                 !.config = getattr(settings, settings_config, NoneVal),
                 !.append_unrepresented_models =
                     getattr(settings, settings_append_unrepresented_models, FALSE)]
    IN  IF s1.response_context_key \notin DOMAIN ctx
        THEN [self |-> s1, objects |-> objs, exc |-> "KeyError"]
        ELSE LET s2  == [s1 EXCEPT !.project_apps_list = ctx[s1.response_context_key]]
                 pml == get_project_models_list(s2, objs)
                 s3  == [s2 EXCEPT !.project_models_list = pml.ret]
             IN  IF \/ ~Truthy(s3.config)
                    \/ ~(IsTuple(s3.config) \/ IsList(s3.config))
                    \/ ~(IsTuple(s3.valid_url_names) \/ IsList(s3.valid_url_names))
                 THEN [self |-> s3, objects |-> pml.objects, exc |-> "ImproperlyConfigured"]
                 ELSE [self |-> s3, objects |-> pml.objects, exc |-> "none"]

init_config(slf, objs, ctx, req) ==
    LET s1 == [slf EXCEPT
                 !.request = req,
                 !.config = getattr(settings, settings_config, NoneVal),
                 !.append_unrepresented_models =
                     getattr(settings, settings_append_unrepresented_models, FALSE)]
        raised(s, e) == [self |-> s, objects |-> objs, exc |-> e]
    IN  IF ~Truthy(s1.config) THEN raised(s1, "ImproperlyConfigured")
        ELSE IF ~(IsTuple(s1.config) \/ IsList(s1.config))
             THEN raised(s1, "ImproperlyConfigured")
        ELSE IF ~(IsTuple(s1.valid_url_names) \/ IsList(s1.valid_url_names))
             THEN raised(s1, "ImproperlyConfigured")
        \* get_project_apps_list
        ELSE IF s1.response_context_key \notin DOMAIN ctx THEN raised(s1, "KeyError")
        ELSE LET s2 == [s1 EXCEPT !.project_apps_list = ctx[s1.response_context_key]]
                 pml == get_project_models_list(s2, objs)
             IN  [self    |-> [s2 EXCEPT !.project_models_list = pml.ret],
                  objects |-> pml.objects,
                  exc     |-> "none"]

-----------------------------------------------------------------------------
(* Model Selector *)

get_valid_model_from_str(slf, objs, model_name) ==
    LET pml  == slf.project_models_list
        hits == {i \in DOMAIN pml : Model(objs, pml[i].mref)["model_name"] = model_name}
    IN  IF hits = {} THEN NoneVal
        ELSE pml[CHOOSE i \in hits : \A j \in hits : i <= j]

\* returns the model and the objects as the assignment leaves them
process_model_config(slf, objs, model_config) ==
    IF "model" \notin DOMAIN model_config \/ "label" \notin DOMAIN model_config
    THEN [objects |-> objs, ret |-> NoneVal]
    ELSE LET model == get_valid_model_from_str(slf, objs, model_config["model"])
         IN  IF Truthy(model)
             THEN [objects |-> SetModel(objs, model.mref,
                                   SetKey(Model(objs, model.mref), "name",
                                          model_config["label"])),
                   ret     |-> model]
             ELSE [objects |-> objs, ret |-> NoneVal]

\* list.sort(key=get_model_list_key): a stable sort by model["model_name"]
RECURSIVE SortByModelName(_, _)
SortByModelName(objs, models) ==
    IF Len(models) = 0 THEN <<>>
    ELSE LET key(m) == Model(objs, m.mref)["model_name"]
             front  == SortByModelName(objs, SubSeq(models, 1, Len(models) - 1))
             x      == models[Len(models)]
             n      == Cardinality({i \in DOMAIN front : ~StrLess(key(x), key(front[i]))})
         IN  SubSeq(front, 1, n) \o <<x>> \o SubSeq(front, n + 1, Len(front))

\* apps.get_app_config(app_name) raises LookupError for an app that is not
\* installed
process_model_config_wildcard(slf, objs, model_wildcard) ==
    LET app_name == SplitWildcardHead(model_wildcard)
    IN  IF app_name \notin DOMAIN registry
        THEN [exc |-> "LookupError", ret |-> <<>>]
        ELSE LET app_models == registry[app_name]
                 valid(i)   == get_valid_model_from_str(slf, objs, app_models[i])
                 found      == SelectSeq([i \in DOMAIN app_models |-> valid(i)], Truthy)
             IN  [exc |-> "none", ret |-> SortByModelName(objs, found)]

\* the first loop of get_deduplicated_models_list, from models_list[i] on:
\* the tuples and the objects as the loop leaves them
RECURSIVE ModelTuples(_, _, _, _)
ModelTuples(objs, models_list, i, acc) ==
    IF i > Len(models_list) THEN [objects |-> objs, tuples |-> acc]
    ELSE LET m     == models_list[i].mref
             d     == Model(objs, m)
             perms == getattr(d, "perms", NoneVal)
             d1    == IF IsDict(perms)
                      THEN SetKey(d, "perms", [tuple |-> perms.dict])
                      ELSE d
         IN  ModelTuples(SetModel(objs, m, d1), models_list, i + 1,
                         Append(acc, [tuple |-> d1]))

\* dict(deduped_model) with its perms made a dict again
DedupedModelDict(deduped_model) ==
    LET d == deduped_model.tuple
    IN  SetKey(d, "perms", IF IsTuple(d.perms) THEN [dict |-> d.perms.tuple] ELSE d.perms)

\* get_deduplicated_models_list converting every tuple back without making
\* the set
get_deduplicated_models_list_keeping_all(objs, models_list) ==
    LET loop == ModelTuples(objs, models_list, 1, <<>>)
    IN  IF \E i \in DOMAIN loop.tuples : "perms" \notin DOMAIN loop.tuples[i].tuple
        THEN {[objects |-> loop.objects, exc |-> "KeyError", ret |-> <<>>]}
        ELSE {[objects |-> loop.objects, exc |-> "none",
               ret |-> [i \in DOMAIN loop.tuples |-> DedupedModelDict(loop.tuples[i])]]}

\* the set has no order of its own: every order of iteration is an outcome
get_deduplicated_models_list(objs, models_list) ==
    LET loop       == ModelTuples(objs, models_list, 1, <<>>)
        models_set == {loop.tuples[i] : i \in DOMAIN loop.tuples}
    IN  IF \E t \in models_set : "perms" \notin DOMAIN t.tuple
        THEN {[objects |-> loop.objects, exc |-> "KeyError", ret |-> <<>>]}
        ELSE {[objects |-> loop.objects, exc |-> "none",
               ret |-> [i \in DOMAIN o |-> DedupedModelDict(o[i])]] :
                  o \in Orderings(models_set)}

\* the loop of process_models_config, from models[i] on: initial_models_list
\* and the objects as the loop leaves them
RECURSIVE InitialModelsList(_, _, _, _, _)
InitialModelsList(slf, objs, models, i, acc) ==
    IF i > Len(models) THEN [objects |-> objs, exc |-> "none", list |-> acc]
    ELSE LET model_config == models[i]
         IN  IF IsDict(model_config)
             THEN LET r == process_model_config(slf, objs, model_config.dict)
                  IN  InitialModelsList(slf, r.objects, models, i + 1,
                          IF Truthy(r.ret) THEN Append(acc, r.ret) ELSE acc)
             ELSE IF ~Contains2(model_config.str, ".", "*")
             THEN LET model == get_valid_model_from_str(slf, objs, model_config.str)
                  IN  InitialModelsList(slf, objs, models, i + 1,
                          IF Truthy(model) THEN Append(acc, model) ELSE acc)
             ELSE LET w == process_model_config_wildcard(slf, objs, model_config.str)
                  IN  IF w.exc # "none"
                      THEN [objects |-> objs, exc |-> w.exc, list |-> acc]
                      ELSE LET acc1  == acc \o w.ret
                               \* the loop variable keeps the last model
                               model == IF Len(w.ret) > 0 THEN w.ret[Len(w.ret)]
                                        ELSE NoneVal
                           IN  InitialModelsList(slf, objs, models, i + 1,
                                   IF Truthy(model) THEN Append(acc1, model) ELSE acc1)

\* the outcomes of process_models_config: objects, exc and the list returned;
\* a models_config that is a dict is iterated by its keys, kept in .keys
process_models_config(slf, objs, models_cfg) ==
    IF ~(IsDict(models_cfg) \/ IsList(models_cfg) \/ IsTuple(models_cfg))
    THEN {[objects |-> objs, exc |-> "TypeError", ret |-> <<>>]}
    ELSE LET models == IF IsList(models_cfg) THEN models_cfg.list
                       ELSE IF IsTuple(models_cfg) THEN models_cfg.tuple
                       ELSE models_cfg.keys
             loop   == InitialModelsList(slf, objs, models, 1, <<>>)
         IN  IF loop.exc # "none"
             THEN {[objects |-> loop.objects, exc |-> loop.exc, ret |-> <<>>]}
             ELSE get_deduplicated_models_list(loop.objects, loop.list)

-----------------------------------------------------------------------------
(* Config Interpreter *)

\* get_valid_app_from_str returning in its first iteration, whatever the label
get_valid_app_from_str_first(slf, objs, app_label) ==
    LET l    == slf.project_apps_list.listref
        apps == AppList(objs, l)
    IN  IF Len(apps) = 0 THEN NoneVal ELSE Appref(l[1], l[2], 1)

get_valid_app_from_str(slf, objs, app_label) ==
    LET l    == slf.project_apps_list.listref
        apps == AppList(objs, l)
        hits == {i \in DOMAIN apps : apps[i].app_label = app_label}
    IN  IF hits = {} THEN NoneVal
        ELSE Appref(l[1], l[2], CHOOSE i \in hits : \A j \in hits : i <= j)

\* the outcomes of get_valid_app_from_dict
get_valid_app_from_dict(slf, objs, app_config) ==
    IF "app" \notin DOMAIN app_config
    THEN {[objects |-> objs, exc |-> "NameError", ret |-> NoneVal]}
    ELSE LET found == get_valid_app_from_str(slf, objs, app_config["app"])
         IN  IF ~Truthy(found)
             THEN {[objects |-> objs, exc |-> "none", ret |-> NoneVal]}
             ELSE LET copy == App(objs, found.appref)      \* deepcopy(app)
                      app  == IF "label" \in DOMAIN app_config /\ IsStr(app_config["label"])
                              THEN SetKey(copy, "name", app_config["label"].str)
                              ELSE copy
                  IN  IF "models" \notin DOMAIN app_config
                      THEN {[objects |-> objs, exc |-> "none", ret |-> app]}
                      ELSE {[objects |-> m.objects,
                             exc     |-> m.exc,
                             ret     |-> IF m.exc = "none" /\ Len(m.ret) > 0
                                         THEN SetKey(app, "models", m.ret)
                                         ELSE NoneVal] :
                               m \in process_models_config(slf, objs, app_config["models"])}

\* the outcomes of process_app_config
process_app_config(slf, objs, app_config) ==
    IF ~(IsDict(app_config) \/ IsStr(app_config))
    THEN {[objects |-> objs, exc |-> "TypeError", ret |-> NoneVal]}
    ELSE IF IsStr(app_config)
    THEN {[objects |-> objs, exc |-> "none",
           ret |-> get_valid_app_from_str(slf, objs, app_config.str)]}
    ELSE get_valid_app_from_dict(slf, objs, app_config.dict)

\* the list comprehension of get_reordered_apps_list, from config[i] on
RECURSIVE ReorderedFrom(_, _, _, _)
ReorderedFrom(slf, objs, i, acc) ==
    LET config == IF IsList(slf.config) THEN slf.config.list ELSE slf.config.tuple
    IN  IF i > Len(config)
        THEN {[objects |-> objs, exc |-> "none", ret |-> acc]}
        ELSE UNION {IF a.exc # "none"
                    THEN {[objects |-> a.objects, exc |-> a.exc, ret |-> <<>>]}
                    ELSE ReorderedFrom(slf, a.objects, i + 1, Append(acc, a.ret)) :
                       a \in process_app_config(slf, objs, config[i])}

\* the outcomes of get_reordered_apps_list
get_reordered_apps_list(slf, objs) == ReorderedFrom(slf, objs, 1, <<>>)

-----------------------------------------------------------------------------
(* process_template_response *)

\* the outcomes of one whole call: the fields of self, the objects and the
\* context as the call leaves them, and "returned" or the exception raised
process_template_response(slf, objs, ctx, req) ==
    LET s1 == init_valid_urls(slf)
        left(s, o, c, e) ==
            [self |-> s, objects |-> o, context_data |-> c, outcome |-> e]
    IN  IF ~validate_admin_urls(s1, req)
        THEN {left(s1, objs, ctx, "returned")}
        ELSE LET s2 == init_response_context_key(s1, ctx)
             IN  IF s2.response_context_key = NoneKey
                 THEN {left(s2, objs, ctx, "returned")}
                 ELSE LET c == init_config(s2, objs, ctx, req)
                      IN  IF c.exc # "none"
                          THEN {left(c.self, c.objects, ctx, c.exc)}
                          ELSE {IF g.exc # "none"
                                THEN left(c.self, g.objects, ctx, g.exc)
                                ELSE left(c.self, g.objects,
                                          SetKey(ctx, c.self.response_context_key,
                                                 List(g.ret)),
                                          "returned") :
                                   g \in get_reordered_apps_list(c.self, c.objects)}

-----------------------------------------------------------------------------
(* The project: what the admin view, the settings module and the app    *)
(* registry hand to the middleware                                       *)

blog == <<"blog">>

auth == <<"auth">>

ghost == <<"ghost">>

PermsDict(add, change) == [dict |-> <<<<"add", add>>, <<"change", change>>>>]

\* a model dict as AdminSite._build_app_dict makes it
ModelDict(name, object_name, perms) ==
    [name |-> name, object_name |-> <<object_name>>, perms |-> perms]

AuthApp ==
    [name |-> "Authentication and Authorization", app_label |-> auth,
     models |-> <<ModelDict("Users", "User", PermsDict(FALSE, TRUE))>>]

BlogApp ==
    [name |-> "Blog", app_label |-> blog,
     models |-> <<ModelDict("Comments", "Comment", PermsDict(TRUE, FALSE)),
                  ModelDict("Posts", "Post", PermsDict(TRUE, TRUE))>>]

Title == [str |-> "Site administration"]

\* the contexts a view can hand over, app lists by value
Contexts ==
    { [title |-> Title, app_list |-> List(<<AuthApp, BlogApp>>),
       available_apps |-> List(<<AuthApp, BlogApp>>)],
      [title |-> Title, app_list |-> List(<<BlogApp>>),
       available_apps |-> List(<<AuthApp, BlogApp>>)],
      [title |-> Title, app_list |-> List(<<AuthApp>>)],
      [title |-> Title, available_apps |-> List(<<AuthApp, BlogApp>>)],
      [title |-> Title] }

Paths ==
    {"/admin/", "/admin/blog/", "/admin/blog/post/", "/shop/", "/shop/cart/", "/nope/"}

\* response.context_data of call r for a context given by value
ContextOf(r, c) ==
    [k \in DOMAIN c |-> IF IsList(c[k]) THEN Listref(r, k) ELSE c[k]]

\* the list objects of call r for a context given by value
ObjectsOf(c) ==
    [k \in {x \in DOMAIN c : IsList(c[x])} |-> c[k].list]

Post == Str(<<"blog", ".", "Post">>)

Comment == Str(<<"blog", ".", "Comment">>)

User == Str(<<"auth", ".", "User">>)

Thing == Str(<<"ghost", ".", "Thing">>)

BlogWildcard == Str(<<"blog", ".", "*">>)

GhostWildcard == Str(<<"ghost", ".", "*">>)

Article == Dict([model |-> Post.str, label |-> "Article"])

Unlabelled == Dict([model |-> Post.str])

ModelSelectors ==
    {Post, Comment, User, Thing, BlogWildcard, GhostWildcard, Article, Unlabelled}

SeqsUpTo(S, n) == UNION {[1..k -> S] : k \in 0..n}

\* the "models" sub-configurations drawn for a direct call of the selector
ModelsConfigs == {List(s) : s \in SeqsUpTo(ModelSelectors, MaxModelsLen)}

\* the "models" sub-configurations the app entries of a drawn config carry
AppModelsConfigs ==
    { List(<<Post, Comment>>), List(<<BlogWildcard>>), List(<<Article>>),
      List(<<Thing>>), List(<<GhostWildcard>>) }

AppConfigs ==
    { Str(blog), Str(auth), Str(ghost),
      Dict([app |-> blog, label |-> [str |-> "Content"]]),
      Dict([app |-> ghost, label |-> [str |-> "Content"]]),
      Dict([label |-> [str |-> "Content"]]),
      [int |-> 7] }
    \cup {Dict([app |-> blog, models |-> m]) : m \in AppModelsConfigs}

\* the values of settings.ADMIN_REORDER_MODEL_LIST
Configs == {List(s) : s \in SeqsUpTo(AppConfigs, MaxConfigLen)} \cup {Str(blog)}

Settings ==
    { <<>> }
    \cup {[ADMIN_REORDER_MODEL_LIST |-> c] : c \in Configs}
    \cup {[ADMIN_REORDER_MODEL_LIST |-> List(<<Str(blog)>>),
           ADMIN_REORDER_VALID_URL_NAMES |-> List(<<"cart">>)]}

\* the orders in which apps.get_app_config(label).get_models() can give the
\* two models of blog that are registered with the admin; blog.Draft, which
\* is not registered with it, comes between them
Registries ==
    {(blog :> <<o[1], <<"blog", ".", "Draft">>, o[2]>>) @@ (auth :> <<User.str>>) :
        o \in Orderings({Post.str, Comment.str})}

\* the instance before its first call: no field is set
NoFields ==
    [valid_url_names |-> Unset, request |-> Unset, config |-> Unset,
     append_unrepresented_models |-> Unset, response_context_key |-> Unset,
     project_apps_list |-> Unset, project_models_list |-> Unset]

-----------------------------------------------------------------------------
(* Spec: one call of process_template_response, taken as a whole.  The   *)
(* call is call 1; it comes to an instance that is new, or to one that   *)
(* has handled a request before (call 2) and keeps what that call left   *)
(* in its fields.                                                        *)

Init ==
    /\ settings \in Settings
    /\ registry \in Registries
    /\ request = [r \in Calls |-> "none"]
    /\ context_data = [r \in Calls |-> <<>>]
    /\ objects = [r \in Calls |-> <<>>]
    /\ self = NoFields
    /\ pc = [r \in Calls |-> "idle"]
    /\ outcome = [r \in Calls |-> "none"]
    /\ reordered = [r \in Calls |-> NoneVal]
    /\ original = [r \in Calls |-> <<>>]
    /\ models_config = NoneVal
    /\ result = Unset

\* call r, from its first statement to its return or its exception
Handle(r, path, c) ==
    /\ pc[r] = "idle"
    /\ \E o \in process_template_response(
                    self, [objects EXCEPT ![r] = ObjectsOf(c)], ContextOf(r, c), path) :
          /\ self' = o.self
          /\ objects' = o.objects
          /\ context_data' = [context_data EXCEPT ![r] = o.context_data]
          /\ outcome' = [outcome EXCEPT ![r] = o.outcome]
    /\ request' = [request EXCEPT ![r] = path]
    /\ original' = [original EXCEPT ![r] = c]
    /\ pc' = [pc EXCEPT ![r] = "done"]
    /\ UNCHANGED <<settings, registry, reordered, models_config, result>>

\* the request the instance may have handled before
EarlierPath == "/admin/"

EarlierContext == [title |-> Title, available_apps |-> List(<<AuthApp, BlogApp>>)]

\* the framework has called the middleware before, for another request
EarlierCall ==
    /\ pc[1] = "idle"
    /\ Handle(2, EarlierPath, EarlierContext)

\* the framework calls the middleware with a request and the response of
\* its view
ProcessTemplateResponse ==
    \E path \in Paths, c \in Contexts : Handle(1, path, c)

Next == EarlierCall \/ ProcessTemplateResponse

Spec == Init /\ [][Next]_vars

-----------------------------------------------------------------------------
(* SpecSelector: the Model Selector alone.  Call 1 has come as far as     *)
(* init_config on an admin index page, and process_models_config is       *)
(* applied to the "models" sub-configuration of the entry of the one app  *)
(* the config names.                                                      *)

SelectorContexts == {c \in Contexts : "app_list" \in DOMAIN c /\ "available_apps" \in DOMAIN c}

SelectorInit ==
    /\ models_config \in ModelsConfigs
    /\ settings = [ADMIN_REORDER_MODEL_LIST |->
                      List(<<Dict([app |-> blog, models |-> models_config])>>)]
    /\ registry \in Registries
    /\ request = [r \in Calls |-> IF r = 1 THEN "/admin/" ELSE "none"]
    /\ \E c \in SelectorContexts :
          LET ctx == ContextOf(1, c)
              s   == init_response_context_key(init_valid_urls(NoFields), ctx)
              i   == init_config(s, [r \in Calls |-> IF r = 1 THEN ObjectsOf(c) ELSE <<>>],
                                 ctx, "/admin/")
          IN  /\ context_data = [r \in Calls |-> IF r = 1 THEN ctx ELSE <<>>]
              /\ original = [r \in Calls |-> IF r = 1 THEN c ELSE <<>>]
              /\ self = i.self
              /\ objects = i.objects
    /\ pc = [r \in Calls |-> IF r = 1 THEN "process_models_config" ELSE "idle"]
    /\ outcome = [r \in Calls |-> "none"]
    /\ reordered = [r \in Calls |-> NoneVal]
    /\ result = Unset

ProcessModelsConfig ==
    /\ pc[1] = "process_models_config"
    /\ \E o \in process_models_config(self, objects, models_config) :
          /\ result' = [exc |-> o.exc, ret |-> o.ret]
          /\ objects' = o.objects
    /\ pc' = [pc EXCEPT ![1] = "selected"]
    /\ UNCHANGED <<settings, registry, request, context_data, self, outcome,
                   reordered, original, models_config>>

NextSelector == ProcessModelsConfig

SpecSelector == SelectorInit /\ [][NextSelector]_vars

-----------------------------------------------------------------------------
(* SpecConc: two calls of process_template_response on the one instance, *)
(* as two threads of a server run them.  A thread can be preempted        *)
(* between any two statements of process_template_response.               *)

ConcPaths == {"/admin/", "/shop/cart/"}

\* the contexts that hold an app list under exactly one of the two keys
ConcContexts ==
    {c \in Contexts : ~("app_list" \in DOMAIN c <=> "available_apps" \in DOMAIN c)}

ConcConfigs ==
    { List(<<Str(blog), Str(auth)>>),
      List(<<Dict([app |-> blog, models |-> List(<<Article>>)]), Str(auth)>>) }

ConcInit ==
    /\ settings \in {[ADMIN_REORDER_MODEL_LIST |-> c] : c \in ConcConfigs}
    /\ registry = CHOOSE g \in Registries : TRUE
    /\ request = [r \in Calls |-> "none"]
    /\ context_data = [r \in Calls |-> <<>>]
    /\ objects = [r \in Calls |-> <<>>]
    /\ self = NoFields
    /\ pc = [r \in Calls |-> "idle"]
    /\ outcome = [r \in Calls |-> "none"]
    /\ reordered = [r \in Calls |-> NoneVal]
    /\ original = [r \in Calls |-> <<>>]
    /\ models_config = NoneVal
    /\ result = Unset

\* `return response`, or an exception leaving the call
Leave(r, e) ==
    /\ pc' = [pc EXCEPT ![r] = "done"]
    /\ outcome' = [outcome EXCEPT ![r] = e]

Goto(r, label) ==
    /\ pc' = [pc EXCEPT ![r] = label]
    /\ UNCHANGED outcome

\* the framework calls process_template_response(request, response)
Enter(r) ==
    /\ pc[r] = "idle"
    /\ \E path \in ConcPaths, c \in ConcContexts :
          /\ request' = [request EXCEPT ![r] = path]
          /\ context_data' = [context_data EXCEPT ![r] = ContextOf(r, c)]
          /\ objects' = [objects EXCEPT ![r] = ObjectsOf(c)]
          /\ original' = [original EXCEPT ![r] = c]
    /\ Goto(r, "init_valid_urls")
    /\ UNCHANGED <<settings, registry, self, reordered, models_config, result>>

InitValidUrls(r) ==
    /\ pc[r] = "init_valid_urls"
    /\ self' = init_valid_urls(self)
    /\ Goto(r, "validate_admin_urls")
    /\ UNCHANGED <<settings, registry, request, context_data, objects, reordered,
                   original, models_config, result>>

ValidateAdminUrls(r) ==
    /\ pc[r] = "validate_admin_urls"
    /\ IF validate_admin_urls(self, request[r])
       THEN Goto(r, "init_response_context_key")
       ELSE Leave(r, "returned")
    /\ UNCHANGED <<settings, registry, request, context_data, objects, self,
                   reordered, original, models_config, result>>

InitResponseContextKey(r) ==
    /\ pc[r] = "init_response_context_key"
    /\ self' = init_response_context_key(self, context_data[r])
    /\ Goto(r, "check_context_key")
    /\ UNCHANGED <<settings, registry, request, context_data, objects, reordered,
                   original, models_config, result>>

CheckContextKey(r) ==
    /\ pc[r] = "check_context_key"
    /\ IF self.response_context_key = NoneKey
       THEN Leave(r, "returned")
       ELSE Goto(r, "init_config")
    /\ UNCHANGED <<settings, registry, request, context_data, objects, self,
                   reordered, original, models_config, result>>

InitConfig(r) ==
    /\ pc[r] = "init_config"
    /\ LET c == init_config(self, objects, context_data[r], request[r])
       IN  /\ self' = c.self
           /\ objects' = c.objects
           /\ IF c.exc # "none"
              THEN Leave(r, c.exc)
              ELSE Goto(r, "get_reordered_apps_list")
    /\ UNCHANGED <<settings, registry, request, context_data, reordered, original,
                   models_config, result>>

GetReorderedAppsList(r) ==
    /\ pc[r] = "get_reordered_apps_list"
    /\ \E g \in get_reordered_apps_list(self, objects) :
          /\ objects' = g.objects
          /\ IF g.exc # "none"
             THEN Leave(r, g.exc) /\ UNCHANGED reordered
             ELSE /\ Goto(r, "install")
                  /\ reordered' = [reordered EXCEPT ![r] = List(g.ret)]
    /\ UNCHANGED <<settings, registry, request, context_data, self, original,
                   models_config, result>>

\* response.context_data[self.response_context_key] = <the list>
Install(r) ==
    /\ pc[r] = "install"
    /\ context_data' = [context_data EXCEPT
                           ![r] = SetKey(@, self.response_context_key, reordered[r])]
    /\ Leave(r, "returned")
    /\ UNCHANGED <<settings, registry, request, objects, self, reordered, original,
                   models_config, result>>

NextConc ==
    \E r \in Calls :
        \/ Enter(r)
        \/ InitValidUrls(r)
        \/ ValidateAdminUrls(r)
        \/ InitResponseContextKey(r)
        \/ CheckContextKey(r)
        \/ InitConfig(r)
        \/ GetReorderedAppsList(r)
        \/ Install(r)

SpecConc == ConcInit /\ [][NextConc]_vars

-----------------------------------------------------------------------------
(* Vocabulary of the properties *)

\* the keys of the context of call r under which a reordered list was put
InstalledKeys(r) == {k \in DOMAIN context_data[r] : IsList(context_data[r][k])}

\* the list the template finds under key k of the context of call r
Output(r, k) == DerefValue(objects, context_data[r][k]).list

\* the app list the view had put under key k of the context of call r
Catalog(r, k) == original[r][k].list

\* the model names of the catalog the view had put under key k
CatalogModelNames(r, k) ==
    UNION {{get_formatted_model_name(Catalog(r, k)[i].app_label,
                                     Catalog(r, k)[i].models[j].object_name) :
               j \in DOMAIN Catalog(r, k)[i].models} :
           i \in DOMAIN Catalog(r, k)}

\* the app label a well-formed config entry names
EntryLabel(e) == IF IsStr(e) THEN e.str ELSE e.dict["app"]

\* a bare string, or a structured entry with an app and without models
IsPlainEntry(e) ==
    IsStr(e) \/ (IsDict(e) /\ "app" \in DOMAIN e.dict /\ "models" \notin DOMAIN e.dict)

\* a bare string, or a structured entry with an app whose models, if any,
\* are a list
IsWellFormedEntry(e) ==
    \/ IsStr(e)
    \/ /\ IsDict(e)
       /\ "app" \in DOMAIN e.dict
       /\ "models" \in DOMAIN e.dict => IsList(e.dict["models"])

InCatalog(r, k, label) == \E i \in DOMAIN Catalog(r, k) : Catalog(r, k)[i].app_label = label

\* the route is in the admin namespace and its name is in the allow-list
IsApplicable(path_info) ==
    LET url == resolve(path_info)
    IN  /\ ~IsNone(url)
        /\ url.app_name = "admin"
        /\ InList(url.url_name,
                  getattr(settings, settings_valid_url_names, List(<<"index", "app_list">>)))

HasAppListKey(c) == "app_list" \in DOMAIN c \/ "available_apps" \in DOMAIN c

-----------------------------------------------------------------------------
(* Properties of one call (Spec) *)

\* every entry of the config is plain and names an app of the catalog
AllPlainAndExisting(r, k) ==
    \A i \in DOMAIN self.config.list :
        /\ IsPlainEntry(self.config.list[i])
        /\ InCatalog(r, k, EntryLabel(self.config.list[i]))

\* C1: when every entry of the config is a bare string or a structured entry
\* without a models filter, and names an app of the catalog, the installed
\* list is as long as the config and its i-th element has the app_label the
\* i-th entry names.
OrderPreservation ==
    \A k \in InstalledKeys(1) :
        AllPlainAndExisting(1, k) =>
            /\ Len(Output(1, k)) = Len(self.config.list)
            /\ \A i \in DOMAIN self.config.list :
                  /\ ~IsNone(Output(1, k)[i])
                  /\ Output(1, k)[i].app_label = EntryLabel(self.config.list[i])

\* a config of two plain entries naming blog, relabelled, and then auth was
\* installed over a catalog that lists auth before blog
OrderPreservationWitness ==
    \E k \in InstalledKeys(1) :
        /\ AllPlainAndExisting(1, k)
        /\ Len(self.config.list) = 2
        /\ IsDict(self.config.list[1])
        /\ EntryLabel(self.config.list[1]) = blog
        /\ EntryLabel(self.config.list[2]) = auth
        /\ Catalog(1, k)[1].app_label = auth
        /\ Output(1, k)[1].name = "Content"

\* C8: when the ordering setting is absent, the route is an applicable admin
\* view and the context holds an app-list key, the call raises
\* ImproperlyConfigured and the context, with every app and model in it, is
\* what the view built.
MissingSettingLeavesContext ==
    ( /\ pc[1] = "done"
      /\ settings_config \notin DOMAIN settings
      /\ IsApplicable(request[1])
      /\ HasAppListKey(original[1]) )
    => /\ outcome[1] = "ImproperlyConfigured"
       /\ View(context_data[1], objects) = original[1]

\* a call on an applicable admin view with an app list in its context ended
\* in ImproperlyConfigured for want of the setting
MissingSettingWitness ==
    /\ pc[1] = "done"
    /\ settings_config \notin DOMAIN settings
    /\ IsApplicable(request[1])
    /\ HasAppListKey(original[1])
    /\ outcome[1] = "ImproperlyConfigured"
    /\ "app_list" \in DOMAIN original[1]
    /\ Len(original[1]["app_list"].list) = 2


\* the selector resolves to a model of the catalog
SelectorResolves(r, k, sel) ==
    IF IsDict(sel)
    THEN /\ "model" \in DOMAIN sel.dict
         /\ "label" \in DOMAIN sel.dict
         /\ sel.dict["model"] \in CatalogModelNames(r, k)
    ELSE IF Contains2(sel.str, ".", "*")
    THEN /\ SplitWildcardHead(sel.str) \in DOMAIN registry
         /\ \E i \in DOMAIN registry[SplitWildcardHead(sel.str)] :
               registry[SplitWildcardHead(sel.str)][i] \in CatalogModelNames(r, k)
    ELSE sel.str \in CatalogModelNames(r, k)

\* the entry names an app of the catalog and its models filter, if it has
\* one, resolves to a model
EntryResolves(r, k, e) ==
    /\ InCatalog(r, k, EntryLabel(e))
    /\ (IsDict(e) /\ "models" \in DOMAIN e.dict) =>
           \E i \in DOMAIN e.dict["models"].list :
               SelectorResolves(r, k, e.dict["models"].list[i])

\* C2: an entry that resolves to nothing contributes no element: the installed
\* list holds app entries only, no None, and is as long as the number of
\* entries that resolved.
SafeMiss ==
    \A k \in InstalledKeys(1) :
        (\A i \in DOMAIN self.config.list : IsWellFormedEntry(self.config.list[i])) =>
            /\ \A i \in DOMAIN Output(1, k) : ~IsNone(Output(1, k)[i])
            /\ Len(Output(1, k)) =
                  Cardinality({i \in DOMAIN self.config.list :
                                  EntryResolves(1, k, self.config.list[i])})

\* C3: a call whose route is not both in the admin namespace and named in the
\* allow-list returns the response with its context unchanged.
GateRequiresAdminAndName ==
    (pc[1] = "done" /\ ~IsApplicable(request[1])) =>
        /\ outcome[1] = "returned"
        /\ View(context_data[1], objects) = original[1]

\* C6: after the call, every app and every model of the catalog the view
\* built has the name and the perms mapping it had before.
CatalogUntouched ==
    pc[1] = "done" =>
        \A k \in DOMAIN objects[1] :
            \A i \in DOMAIN objects[1][k] :
                /\ objects[1][k][i].name = Catalog(1, k)[i].name
                /\ \A j \in DOMAIN objects[1][k][i].models :
                      /\ objects[1][k][i].models[j].name = Catalog(1, k)[i].models[j].name
                      /\ objects[1][k][i].models[j].perms = Catalog(1, k)[i].models[j].perms

\* C7: a call whose config is a list of well-formed entries completes without
\* an exception, whatever apps and models the entries name.
MissNeverRaises ==
    ( /\ pc[1] = "done"
      /\ settings_config \in DOMAIN settings
      /\ IsList(settings[settings_config])
      /\ Len(settings[settings_config].list) > 0
      /\ \A i \in DOMAIN settings[settings_config].list :
            IsWellFormedEntry(settings[settings_config].list[i]) )
    => outcome[1] = "returned"

-----------------------------------------------------------------------------
(* Properties of the Model Selector (SpecSelector) *)

\* the model names of the catalog the selector looks models up in
SelectorCatalog == CatalogModelNames(1, self.response_context_key)

Returned == pc[1] = "selected" /\ result.exc = "none"

\* two model entries with all fields equal, perms compared by contents
SameModelEntry(a, b) ==
    /\ DOMAIN a = DOMAIN b
    /\ \A f \in DOMAIN a \ {"perms"} : a[f] = b[f]
    /\ {a.perms.dict[i] : i \in DOMAIN a.perms.dict}
         = {b.perms.dict[i] : i \in DOMAIN b.perms.dict}

\* C4: when the selectors are explicit references to pairwise distinct models
\* of the catalog, the list returned holds exactly those models in the order
\* of the selectors.
ExplicitSelectorsKeepOrder ==
    ( /\ Returned
      /\ \A i \in DOMAIN models_config.list :
            /\ IsStr(models_config.list[i])
            /\ ~Contains2(models_config.list[i].str, ".", "*")
            /\ models_config.list[i].str \in SelectorCatalog
      /\ \A i, j \in DOMAIN models_config.list :
            i # j => models_config.list[i] # models_config.list[j] )
    => /\ Len(result.ret) = Len(models_config.list)
       /\ \A i \in DOMAIN models_config.list :
             result.ret[i]["model_name"] = models_config.list[i].str

\* C5: for the single selector "app.*" the list returned holds the models of
\* the app that are in the catalog, in ascending order of model_name.
WildcardIsSorted ==
    ( /\ Returned
      /\ Len(models_config.list) = 1
      /\ IsStr(models_config.list[1])
      /\ Contains2(models_config.list[1].str, ".", "*") )
    => LET app_name == SplitWildcardHead(models_config.list[1].str)
       IN  /\ {result.ret[i]["model_name"] : i \in DOMAIN result.ret}
                = {n \in SelectorCatalog : SubSeq(n, 1, Len(app_name)) = app_name}
           /\ \A i, j \in DOMAIN result.ret :
                 i < j => StrLess(result.ret[i]["model_name"], result.ret[j]["model_name"])

\* C10: the list the selector returns holds no two entries with all fields
\* equal.
NoDuplicateModels ==
    Returned =>
        \A i, j \in DOMAIN result.ret :
            i # j => ~SameModelEntry(result.ret[i], result.ret[j])

\* the selector returned both models of blog once each for a wildcard, which
\* hands over its last model twice, followed by a reference to blog.Post
NoDuplicateModelsWitness ==
    /\ Returned
    /\ models_config.list = <<BlogWildcard, Post>>
    /\ Len(InitialModelsList(self, objects, models_config.list, 1, <<>>).list) = 4
    /\ Len(result.ret) = 2

-----------------------------------------------------------------------------
(* Properties of concurrent calls (SpecConc) *)

\* the outcomes of call r had it run alone on a fresh instance
Alone(r) ==
    process_template_response(
        NoFields, [q \in Calls |-> IF q = r THEN ObjectsOf(original[r]) ELSE <<>>],
        ContextOf(r, original[r]), request[r])

\* C9: whatever the interleaving of two calls on the one instance, each call
\* ends as it would have ended alone: same exception or return, and the same
\* context.
ConcurrentCallsIndependent ==
    \A r \in Calls :
        pc[r] = "done" =>
            \E a \in Alone(r) :
                /\ outcome[r] = a.outcome
                /\ View(context_data[r], objects) = View(a.context_data, a.objects)

=============================================================================
